---- MODULE Spec2Model ----
\* Model of scripts/test_anonymization.py: test_anonymization_compatibility.
\* The function decodes one DICOM file, runs five structural checks that
\* append to the list `issues`, prints the report and a summary, then builds
\* a minimal dataset from a whitelist of keywords and saves it.
EXTENDS Integers, Sequences, FiniteSets, TLC

VARIABLES ds, issues, problematic_vrs, private_count, printed, summary,
          test_ds, tag_index, next_ref, saved, error, pc

vars == <<ds, issues, problematic_vrs, private_count, printed, summary,
          test_ds, tag_index, next_ref, saved, error, pc>>

-----------------------------------------------------------------------------
\* Bounds of the input space.

MaxPrivate == 52      \* largest number of private (odd group) elements
MaxBinary == 7        \* largest number of private elements with a binary VR
MaxItems == 3         \* longest sequence value

-----------------------------------------------------------------------------
\* Program constants.

PrivateThreshold == 50
DisplayLimit == 5
PixelGroup == 32736   \* 0x7FE0

required_tags ==
  << <<8, 24>>,       \* (0008,0018) SOP Instance UID
     <<16, 16>>,      \* (0010,0010) Patient Name
     <<16, 32>>,      \* (0010,0020) Patient ID
     <<32, 13>>,      \* (0020,000D) Study Instance UID
     <<32, 14>> >>    \* (0020,000E) Series Instance UID

DisallowedVRs == <<"OB", "OW", "OF", "OD", "OL", "OV", "UN">>

AllowedCharSets == {"ISO_IR 100", "ISO_IR 192", "", "ISO_IR 6"}

CharSetTag == <<8, 5>>     \* 0x00080005 Specific Character Set

essential_tags ==
  <<"PatientName", "PatientID", "StudyInstanceUID",
    "SeriesInstanceUID", "SOPInstanceUID", "SOPClassUID",
    "Modality", "StudyDate", "SeriesDate">>

ExplicitVRLittleEndian == "1.2.840.10008.1.2.1"

\* File-meta tags written by the extraction.
TransferSyntaxUIDTag == <<2, 16>>
MediaStorageSOPClassUIDTag == <<2, 2>>
MediaStorageSOPInstanceUIDTag == <<2, 3>>

NoTag == <<0, 0>>

-----------------------------------------------------------------------------
\* The data dictionary for the keywords the program names: keyword -> tag, VR.

Dictionary ==
  [ PatientName       |-> [tag |-> <<16, 16>>, VR |-> "PN"],
    PatientID         |-> [tag |-> <<16, 32>>, VR |-> "LO"],
    StudyInstanceUID  |-> [tag |-> <<32, 13>>, VR |-> "UI"],
    SeriesInstanceUID |-> [tag |-> <<32, 14>>, VR |-> "UI"],
    SOPInstanceUID    |-> [tag |-> <<8, 24>>,  VR |-> "UI"],
    SOPClassUID       |-> [tag |-> <<8, 22>>,  VR |-> "UI"],
    Modality          |-> [tag |-> <<8, 96>>,  VR |-> "CS"],
    StudyDate         |-> [tag |-> <<8, 32>>,  VR |-> "DA"],
    SeriesDate        |-> [tag |-> <<8, 33>>,  VR |-> "DA"],
    PatientBirthDate  |-> [tag |-> <<16, 48>>, VR |-> "DA"],
    EncapsulatedDocument |-> [tag |-> <<66, 17>>, VR |-> "OB"] ]

Keywords == DOMAIN Dictionary

\* elem.keyword: the dictionary keyword of a tag, '' for an unknown tag.
keyword(tag) ==
  IF \E k \in Keywords : Dictionary[k].tag = tag
  THEN CHOOSE k \in Keywords : Dictionary[k].tag = tag
  ELSE IF tag = CharSetTag THEN "SpecificCharacterSet"
  ELSE IF tag = <<8, 4373>> THEN "ReferencedSeriesSequence"
  ELSE IF tag = <<64, 629>> THEN "RequestAttributesSequence"
  ELSE IF tag = <<PixelGroup, 16>> THEN "PixelData"
  ELSE ""

-----------------------------------------------------------------------------
\* Element model.  A value is [ref, shape, val]: ref is the identity of a
\* mutable container (0 for an immutable scalar), shape tells what kind of
\* object the value is, val its content.

Value(ref, shape, val) == [ref |-> ref, shape |-> shape, val |-> val]

Element(tag, vr, value, empty) ==
  [tag |-> tag, VR |-> vr, value |-> value, is_empty |-> empty]

TagLess(a, b) == a[1] < b[1] \/ (a[1] = b[1] /\ a[2] < b[2])

\* Dataset.get(tag): the element, or None.
None == [tag |-> NoTag, VR |-> "", value |-> Value(0, "none", <<>>), is_empty |-> FALSE]

get(elements, tag) ==
  IF \E k \in 1..Len(elements) : elements[k].tag = tag
  THEN elements[CHOOSE k \in 1..Len(elements) : elements[k].tag = tag]
  ELSE None

Has(elements, tag) == \E k \in 1..Len(elements) : elements[k].tag = tag

-----------------------------------------------------------------------------
\* Input datasets.  pydicom.dcmread hands back a dataset whose elements are
\* keyed by tag and iterated in increasing tag order; a decoded input is
\* described by a choice record and built slot by slot in tag order.

Absent == "<absent>"

SampleValue ==
  [ PatientName       |-> "DOE^JOHN",
    PatientID         |-> "ID-001",
    StudyInstanceUID  |-> "1.2.3.1",
    SeriesInstanceUID |-> "1.2.3.2",
    SOPInstanceUID    |-> "1.2.3.3",
    SOPClassUID       |-> "1.2.840.10008.5.1.4.1.1.7",
    Modality          |-> "OT",
    StudyDate         |-> "20240101",
    SeriesDate        |-> "20240102",
    PatientBirthDate  |-> "19800101",
    EncapsulatedDocument |-> "%PDF" ]

\* One dictionary element in state st, its container (if any) named ref.
Slot(k, st, ref) ==
  LET d == Dictionary[k] IN
  IF st = "absent" THEN <<>>
  ELSE IF st = "empty" THEN << Element(d.tag, d.VR, Value(0, "scalar", <<>>), TRUE) >>
  ELSE IF st = "multi"
    THEN << Element(d.tag, d.VR, Value(ref, "multi", <<SampleValue[k], "ALT">>), FALSE) >>
  ELSE IF d.VR = "OB"
    THEN << Element(d.tag, d.VR, Value(0, "bytes", <<SampleValue[k]>>), FALSE) >>
  ELSE << Element(d.tag, d.VR, Value(0, "scalar", <<SampleValue[k]>>), FALSE) >>

CharSetSlot(cs) ==
  IF cs = Absent THEN <<>>
  ELSE IF cs = "" THEN << Element(CharSetTag, "CS", Value(0, "scalar", <<>>), TRUE) >>
  ELSE IF cs = "multi"
    THEN << Element(CharSetTag, "CS", Value(1, "multi", <<"ISO 2022 IR 6", "ISO 2022 IR 87">>), FALSE) >>
  ELSE << Element(CharSetTag, "CS", Value(0, "scalar", <<cs>>), FALSE) >>

\* A sequence element; sq.shape is "absent", "list" (items enumerable),
\* "nolen" (a value without __len__) or "raises" (reading or enumerating the
\* value raises, after the items listed were enumerated).  An item is "Item"
\* (a nested dataset) or "None".
SQSlot(tag, sq, ref) ==
  IF sq.shape = "absent" THEN <<>>
  ELSE << Element(tag, "SQ", Value(ref, sq.shape, sq.items), FALSE) >>

\* npriv private elements (0009,1001..): the first nbin carry the binary and
\* unknown VRs in turn, the others are LO.
PrivateBlock(npriv, nbin) ==
  [ j \in 1..npriv |->
      IF j <= nbin
      THEN Element(<<9, 4096 + j>>, DisallowedVRs[((j - 1) % Len(DisallowedVRs)) + 1],
                   Value(0, "bytes", <<"raw">>), FALSE)
      ELSE Element(<<9, 4096 + j>>, "LO", Value(0, "scalar", <<"vendor">>), FALSE) ]

PixelSlot(vr) ==
  IF vr = Absent THEN <<>>
  ELSE << Element(<<PixelGroup, 16>>, vr, Value(0, "bytes", <<"pixels">>), FALSE) >>

FileMeta(ts) ==
  IF ts THEN << Element(TransferSyntaxUIDTag, "UI", Value(0, "scalar", <<"1.2.840.10008.1.2">>), FALSE) >>
  ELSE <<>>

Build(c) ==
  [ elements |->
         CharSetSlot(c.cs)
      \o Slot("SOPClassUID", c.st["SOPClassUID"], 2)
      \o Slot("SOPInstanceUID", c.st["SOPInstanceUID"], 3)
      \o Slot("StudyDate", c.st["StudyDate"], 4)
      \o Slot("SeriesDate", c.st["SeriesDate"], 5)
      \o Slot("Modality", c.st["Modality"], 6)
      \o SQSlot(<<8, 4373>>, c.sq1, 7)
      \o PrivateBlock(c.npriv, c.nbin)
      \o Slot("PatientName", c.st["PatientName"], 9)
      \o Slot("PatientID", c.st["PatientID"], 10)
      \o Slot("PatientBirthDate", c.st["PatientBirthDate"], 11)
      \o Slot("StudyInstanceUID", c.st["StudyInstanceUID"], 12)
      \o Slot("SeriesInstanceUID", c.st["SeriesInstanceUID"], 13)
      \o SQSlot(<<64, 629>>, c.sq2, 14)
      \o Slot("EncapsulatedDocument", c.st["EncapsulatedDocument"], 15)
      \o PixelSlot(c.pixel),
    file_meta |-> FileMeta(c.ts) ]

\* The first object identity not used by the decoded dataset.
FirstFreeRef(elements) ==
  LET refs == {elements[k].value.ref : k \in 1..Len(elements)} \cup {0}
  IN  1 + CHOOSE r \in refs : \A q \in refs : q <= r

NoSQ == [shape |-> "absent", items |-> <<>>]

Lists(n) == UNION { [1..m -> {"Item", "None"}] : m \in 0..n }

SQChoices ==
  {NoSQ, [shape |-> "nolen", items |-> <<>>]}
  \cup { [shape |-> "list", items |-> l] : l \in Lists(MaxItems) }
  \cup { [shape |-> "raises", items |-> l] : l \in Lists(MaxItems - 1) }

Base ==
  [ cs |-> Absent,
    st |-> [k \in Keywords |-> IF k = "EncapsulatedDocument" THEN "absent" ELSE "value"],
    sq1 |-> NoSQ, sq2 |-> NoSQ, npriv |-> 0, nbin |-> 0, pixel |-> Absent, ts |-> TRUE ]

WithStates(c, f) == [c EXCEPT !.st = [k \in Keywords |-> IF k \in DOMAIN f THEN f[k] ELSE c.st[k]]]

RequiredKeys == {"SOPInstanceUID", "PatientName", "PatientID", "StudyInstanceUID", "SeriesInstanceUID"}

\* every presence pattern of the required tags, with and without SOPClassUID
InputsRequired ==
  { WithStates(Base, f) :
      f \in [RequiredKeys \cup {"SOPClassUID"} -> {"absent", "empty", "value"}] }

\* binary and unknown VRs inside and outside the pixel group
InputsVR ==
  { [WithStates(Base, [EncapsulatedDocument |-> e])
       EXCEPT !.nbin = b, !.npriv = b + x, !.pixel = p] :
      b \in 0..MaxBinary, x \in {0, 1}, e \in {"absent", "value"},
      p \in {Absent, "OW", "UN"} }

\* sequence elements of every shape
InputsSQ ==
  { [Base EXCEPT !.sq1 = s1, !.sq2 = s2] : s1 \in SQChoices, s2 \in SQChoices }

\* private blocks around the threshold
InputsPrivate ==
  { [Base EXCEPT !.npriv = n, !.nbin = b, !.ts = t] :
      n \in 0..MaxPrivate, b \in {0, 1}, t \in BOOLEAN }

CharSetChoices ==
  {Absent, "", "ISO_IR 6", "ISO_IR 100", "ISO_IR 192", "GB18030", "ISO_IR 144", "multi"}

InputsCharSet ==
  { [WithStates(Base, [SOPInstanceUID |-> s]) EXCEPT !.cs = cs] :
      cs \in CharSetChoices, s \in {"absent", "empty", "value"} }

\* every subset of the whitelist, single and multi-valued, beside other elements
InputsWhitelist ==
  { [WithStates(Base, f) EXCEPT !.sq1 = s] :
      f \in { g \in [Keywords \ {"EncapsulatedDocument"} -> {"absent", "value", "multi"}] :
                \A k \in DOMAIN g : g[k] = "multi" => k \in {"PatientID", "Modality"} },
      s \in {NoSQ, [shape |-> "list", items |-> <<"Item">>]} }

\* findings of several rules at once
InputsMixed ==
  { [WithStates(Base, [SOPInstanceUID |-> s, PatientName |-> n, SOPClassUID |-> k])
       EXCEPT !.nbin = b, !.npriv = p, !.sq1 = q, !.cs = cs] :
      s \in {"absent", "empty", "value"}, n \in {"empty", "value"},
      k \in {"absent", "value"},
      b \in {0, DisplayLimit + 1}, p \in {DisplayLimit + 1, PrivateThreshold + 1},
      q \in {NoSQ, [shape |-> "list", items |-> <<"None">>], [shape |-> "raises", items |-> <<>>]},
      cs \in {Absent, "GB18030"} }

Inputs ==
  InputsRequired \cup InputsVR \cup InputsSQ \cup InputsPrivate
    \cup InputsCharSet \cup InputsWhitelist \cup InputsMixed

-----------------------------------------------------------------------------
\* State after pydicom.dcmread(file_path) returned.

NoDataset == [exists |-> FALSE, elements |-> <<>>, file_meta |-> <<>>]

Init ==
  /\ \E c \in Inputs : ds = Build(c)
  /\ issues = <<>>
  /\ problematic_vrs = <<>>
  /\ private_count = 0
  /\ printed = <<>>
  /\ summary = <<>>
  /\ test_ds = NoDataset
  /\ tag_index = 1
  /\ next_ref = FirstFreeRef(ds.elements)
  /\ saved = <<>>
  /\ error = ""
  /\ pc = "required_tags"

-----------------------------------------------------------------------------
\* Entries of `issues`.  The program appends formatted strings; an entry keeps
\* the message kind and the values formatted into it.

Issue(kind, tag, n, val) == [kind |-> kind, tag |-> tag, n |-> n, val |-> val]

Min(a, b) == IF a < b THEN a ELSE b

\* Variant: the is_empty branch of the required-tag check is left out.
RequiredTagIssue_IgnoresEmpty(elements, tag) ==
  IF get(elements, tag) = None THEN << Issue("Missing required tag", tag, 0, <<>>) >>
  ELSE <<>>

\* 1. Check for missing required tags
RequiredTagIssue(elements, tag) ==
  LET elem == get(elements, tag) IN
  IF elem = None THEN << Issue("Missing required tag", tag, 0, <<>>) >>
  ELSE IF elem.is_empty
    THEN << Issue("Empty required tag", tag, 0, <<keyword(elem.tag)>>) >>
  ELSE <<>>

RequiredTagIssues(elements) ==
  LET f[k \in 0..Len(required_tags)] ==
        IF k = 0 THEN <<>>
        ELSE f[k - 1] \o RequiredTagIssue(elements, required_tags[k])
  IN  f[Len(required_tags)]

\* Variant: the pixel-data group is not exempted.
IsProblematicVR_PixelIncluded(elem) ==
  \E k \in 1..Len(DisallowedVRs) : elem.VR = DisallowedVRs[k]

\* 2. Check for problematic VRs
IsProblematicVR(elem) ==
  /\ \E k \in 1..Len(DisallowedVRs) : elem.VR = DisallowedVRs[k]
  /\ elem.tag[1] # PixelGroup

ProblematicVRs(elements) ==
  LET p == SelectSeq(elements, IsProblematicVR)
  IN  [k \in 1..Len(p) |-> Issue("has VR", p[k].tag, 0, <<keyword(p[k].tag), p[k].VR>>)]

ProblematicVRIssues(p) ==
  IF p = <<>> THEN <<>>
  ELSE << Issue("Found binary/unknown VRs", NoTag, 0, <<>>) >>
       \o SubSeq(p, 1, Min(DisplayLimit, Len(p)))
       \o (IF Len(p) > DisplayLimit
           THEN << Issue("... and more", NoTag, Len(p) - DisplayLimit, <<>>) >>
           ELSE <<>>)

\* Variant: enumerate(elem.value, 1), items counted from 1.
NoneItemIssues_OneBased(elem) ==
  LET items == elem.value.val
      f[k \in 0..Len(items)] ==
        IF k = 0 THEN <<>>
        ELSE f[k - 1] \o (IF items[k] = "None"
                          THEN << Issue("has None item at index", elem.tag, k,
                                        <<keyword(elem.tag)>>) >>
                          ELSE <<>>)
  IN  f[Len(items)]

\* 3. Check for sequences with missing items
NoneItemIssues(elem) ==
  LET items == elem.value.val
      f[k \in 0..Len(items)] ==
        IF k = 0 THEN <<>>
        ELSE f[k - 1] \o (IF items[k] = "None"
                          THEN << Issue("has None item at index", elem.tag, k - 1,
                                        <<keyword(elem.tag)>>) >>
                          ELSE <<>>)
  IN  f[Len(items)]

SequenceIssue(elem) ==
  IF elem.VR # "SQ" THEN <<>>
  ELSE IF elem.value.shape = "raises"
    THEN NoneItemIssues(elem)
         \o << Issue("Cannot iterate sequence", elem.tag, 0, <<keyword(elem.tag)>>) >>
  ELSE IF elem.value.shape = "list"    \* hasattr(elem.value, '__len__')
    THEN NoneItemIssues(elem)
  ELSE <<>>

SequenceIssues(elements) ==
  LET f[k \in 0..Len(elements)] ==
        IF k = 0 THEN <<>> ELSE f[k - 1] \o SequenceIssue(elements[k])
  IN  f[Len(elements)]

\* 4. Check private tags
IsPrivate(elem) == elem.tag[1] % 2 = 1      \* elem.tag.group & 0x0001

PrivateCount(elements) == Len(SelectSeq(elements, IsPrivate))

\* Variant: private_count >= 50.
PrivateIssues_AtThreshold(count) ==
  IF count >= PrivateThreshold
  THEN << Issue("High number of private tags", NoTag, count, <<>>) >>
  ELSE <<>>

PrivateIssues(count) ==
  IF count > PrivateThreshold
  THEN << Issue("High number of private tags", NoTag, count, <<>>) >>
  ELSE <<>>

\* 5. Check for non-standard character encodings
\* elem.value: the empty string for an empty text element.
ScalarValue(value) == IF value.val = <<>> THEN "" ELSE value.val[1]

\* Variant: '' is missing from the list of accepted character sets.
CharSetIssues_EmptyNotAllowed(elements) ==
  LET char_set == get(elements, CharSetTag) IN
  IF /\ char_set # None
     /\ \/ char_set.value.shape # "scalar"
        \/ ScalarValue(char_set.value) \notin (AllowedCharSets \ {""})
  THEN << Issue("Non-standard character set", NoTag, 0,
                IF char_set.value.shape = "scalar"
                THEN <<ScalarValue(char_set.value)>> ELSE char_set.value.val) >>
  ELSE <<>>

CharSetIssues(elements) ==
  LET char_set == get(elements, CharSetTag) IN
  IF /\ char_set # None
     /\ \/ char_set.value.shape # "scalar"
        \/ ScalarValue(char_set.value) \notin AllowedCharSets
  THEN << Issue("Non-standard character set", NoTag, 0,
                IF char_set.value.shape = "scalar"
                THEN <<ScalarValue(char_set.value)>> ELSE char_set.value.val) >>
  ELSE <<>>

-----------------------------------------------------------------------------
\* The validation steps, in program order.

CheckRequiredTags ==
  /\ pc = "required_tags"
  /\ issues' = issues \o RequiredTagIssues(ds.elements)
  /\ pc' = "problematic_vrs"
  /\ UNCHANGED <<ds, problematic_vrs, private_count, printed, summary,
                 test_ds, tag_index, next_ref, saved, error>>

CheckProblematicVRs ==
  /\ pc = "problematic_vrs"
  /\ problematic_vrs' = ProblematicVRs(ds.elements)
  /\ issues' = issues \o ProblematicVRIssues(problematic_vrs')
  /\ pc' = "sequences"
  /\ UNCHANGED <<ds, private_count, printed, summary,
                 test_ds, tag_index, next_ref, saved, error>>

\* Variant: the sequence check runs only while no issue has been found.
CheckSequences_OnlyWhenClean ==
  /\ pc = "sequences"
  /\ issues' = IF issues = <<>> THEN SequenceIssues(ds.elements) ELSE issues
  /\ pc' = "private_tags"
  /\ UNCHANGED <<ds, problematic_vrs, private_count, printed, summary,
                 test_ds, tag_index, next_ref, saved, error>>

CheckSequences ==
  /\ pc = "sequences"
  /\ issues' = issues \o SequenceIssues(ds.elements)
  /\ pc' = "private_tags"
  /\ UNCHANGED <<ds, problematic_vrs, private_count, printed, summary,
                 test_ds, tag_index, next_ref, saved, error>>

CheckPrivateTags ==
  /\ pc = "private_tags"
  /\ private_count' = PrivateCount(ds.elements)
  /\ issues' = issues \o PrivateIssues(private_count')
  /\ pc' = "character_set"
  /\ UNCHANGED <<ds, problematic_vrs, printed, summary,
                 test_ds, tag_index, next_ref, saved, error>>

CheckCharacterSet ==
  /\ pc = "character_set"
  /\ issues' = issues \o CharSetIssues(ds.elements)
  /\ pc' = "report"
  /\ UNCHANGED <<ds, problematic_vrs, private_count, printed, summary,
                 test_ds, tag_index, next_ref, saved, error>>

\* Report results
Report ==
  /\ pc = "report"
  /\ printed' = IF issues # <<>>
                THEN << [head |-> "Potential anonymization issues found", lines |-> issues] >>
                ELSE << [head |-> "No obvious compatibility issues found", lines |-> <<>>] >>
  /\ pc' = "summary"
  /\ UNCHANGED <<ds, issues, problematic_vrs, private_count, summary,
                 test_ds, tag_index, next_ref, saved, error>>

\* Variant: the function returns after the summary when issues were found.
PrintSummary_StopsOnIssues ==
  /\ pc = "summary"
  /\ summary' = << [ total |-> Len(ds.elements),
                     private |-> private_count,
                     transfer_syntax |->
                       IF Has(ds.file_meta, TransferSyntaxUIDTag)
                       THEN ScalarValue(get(ds.file_meta, TransferSyntaxUIDTag).value)
                       ELSE "Unknown" ] >>
  /\ pc' = IF issues # <<>> THEN "done" ELSE "create"
  /\ UNCHANGED <<ds, issues, problematic_vrs, private_count, printed,
                 test_ds, tag_index, next_ref, saved, error>>

\* Print summary
PrintSummary ==
  /\ pc = "summary"
  /\ summary' = << [ total |-> Len(ds.elements),
                     private |-> private_count,
                     transfer_syntax |->
                       IF Has(ds.file_meta, TransferSyntaxUIDTag)
                       THEN ScalarValue(get(ds.file_meta, TransferSyntaxUIDTag).value)
                       ELSE "Unknown" ] >>
  /\ pc' = "create"
  /\ UNCHANGED <<ds, issues, problematic_vrs, private_count, printed,
                 test_ds, tag_index, next_ref, saved, error>>

-----------------------------------------------------------------------------
\* Building the minimal dataset.

\* Variant: the assigned object is stored as it is, list-like or not.
StoredValue_Aliased(value, fresh) == value

\* The value a new element stores when it is assigned `value`, as setattr on
\* a pydicom Dataset does through the element's value setter: a list-like
\* value is rebuilt into a fresh container named `fresh` (a single item is
\* unwrapped), any other value is stored as it is.
StoredValue(value, fresh) ==
  IF value.shape = "multi"
  THEN IF Len(value.val) = 1 THEN Value(0, "scalar", value.val)
       ELSE Value(fresh, "multi", value.val)
  ELSE value

Allocates(value) == value.shape = "multi" /\ Len(value.val) # 1

\* Store elem under its tag, keeping the elements in tag order.
Put(elements, elem) ==
  IF Has(elements, elem.tag)
  THEN [k \in 1..Len(elements) |->
          IF elements[k].tag = elem.tag THEN elem ELSE elements[k]]
  ELSE LET before == SelectSeq(elements, LAMBDA e : TagLess(e.tag, elem.tag))
           after  == SelectSeq(elements, LAMBDA e : TagLess(elem.tag, e.tag))
       IN  before \o <<elem>> \o after

\* setattr(dataset, keyword, value) for a tag with the given VR.
SetElement(elements, tag, vr, value, fresh) ==
  LET v == StoredValue(value, fresh)
  IN  Put(elements, Element(tag, vr, v, v.val = <<>>))

\* test_ds = Dataset(); test_ds.file_meta = Dataset(); TransferSyntaxUID
CreateMinimal ==
  /\ pc = "create"
  /\ test_ds' = [ exists |-> TRUE,
                  elements |-> <<>>,
                  file_meta |-> SetElement(<<>>, TransferSyntaxUIDTag, "UI",
                                  Value(0, "scalar", <<ExplicitVRLittleEndian>>), 0) ]
  /\ pc' = "media_class"
  /\ UNCHANGED <<ds, issues, problematic_vrs, private_count, printed, summary,
                 tag_index, next_ref, saved, error>>

\* test_ds.file_meta.MediaStorageSOPClassUID = ds.SOPClassUID
SetMediaStorageSOPClassUID ==
  /\ pc = "media_class"
  /\ IF Has(ds.elements, Dictionary["SOPClassUID"].tag)
     THEN LET value == get(ds.elements, Dictionary["SOPClassUID"].tag).value IN
          /\ test_ds' = [test_ds EXCEPT !.file_meta =
                           SetElement(@, MediaStorageSOPClassUIDTag, "UI", value, next_ref)]
          /\ next_ref' = IF Allocates(value) THEN next_ref + 1 ELSE next_ref
          /\ pc' = "media_instance"
          /\ UNCHANGED error
     ELSE /\ error' = "AttributeError: SOPClassUID"
          /\ pc' = "except"
          /\ UNCHANGED <<test_ds, next_ref>>
  /\ UNCHANGED <<ds, issues, problematic_vrs, private_count, printed, summary,
                 tag_index, saved>>

\* Variant: getattr(ds, 'SOPInstanceUID', '') instead of ds.SOPInstanceUID.
SetMediaStorageSOPInstanceUID_Defaulted ==
  /\ pc = "media_instance"
  /\ LET value == IF Has(ds.elements, Dictionary["SOPInstanceUID"].tag)
                  THEN get(ds.elements, Dictionary["SOPInstanceUID"].tag).value
                  ELSE Value(0, "scalar", <<>>)
     IN  /\ test_ds' = [test_ds EXCEPT !.file_meta =
                          SetElement(@, MediaStorageSOPInstanceUIDTag, "UI", value, next_ref)]
         /\ next_ref' = IF Allocates(value) THEN next_ref + 1 ELSE next_ref
  /\ pc' = "copy"
  /\ UNCHANGED <<ds, issues, problematic_vrs, private_count, printed, summary,
                 tag_index, saved, error>>

\* test_ds.file_meta.MediaStorageSOPInstanceUID = ds.SOPInstanceUID
SetMediaStorageSOPInstanceUID ==
  /\ pc = "media_instance"
  /\ IF Has(ds.elements, Dictionary["SOPInstanceUID"].tag)
     THEN LET value == get(ds.elements, Dictionary["SOPInstanceUID"].tag).value IN
          /\ test_ds' = [test_ds EXCEPT !.file_meta =
                           SetElement(@, MediaStorageSOPInstanceUIDTag, "UI", value, next_ref)]
          /\ next_ref' = IF Allocates(value) THEN next_ref + 1 ELSE next_ref
          /\ pc' = "copy"
          /\ UNCHANGED error
     ELSE /\ error' = "AttributeError: SOPInstanceUID"
          /\ pc' = "except"
          /\ UNCHANGED <<test_ds, next_ref>>
  /\ UNCHANGED <<ds, issues, problematic_vrs, private_count, printed, summary,
                 tag_index, saved>>

\* Variant: if getattr(ds, tag_name, None): an empty value is not copied.
CopyTag_SkipsFalsy(elements, source, tag_name, fresh) ==
  LET d == Dictionary[tag_name] IN
  IF Has(source, d.tag) /\ get(source, d.tag).value.val # <<>>
  THEN SetElement(elements, d.tag, d.VR, get(source, d.tag).value, fresh)
  ELSE elements

\* One turn of: for tag_name in essential_tags: if hasattr(ds, tag_name):
\*                  setattr(test_ds, tag_name, getattr(ds, tag_name))
CopyTag(elements, source, tag_name, fresh) ==
  LET d == Dictionary[tag_name] IN
  IF Has(source, d.tag)
  THEN SetElement(elements, d.tag, d.VR, get(source, d.tag).value, fresh)
  ELSE elements

CopyEssentialTag ==
  /\ pc = "copy"
  /\ tag_index <= Len(essential_tags)
  /\ LET tag_name == essential_tags[tag_index]
         tag == Dictionary[tag_name].tag
     IN  /\ test_ds' = [test_ds EXCEPT !.elements =
                          CopyTag(@, ds.elements, tag_name, next_ref)]
         /\ next_ref' = IF Has(ds.elements, tag) /\ Allocates(get(ds.elements, tag).value)
                        THEN next_ref + 1 ELSE next_ref
  /\ tag_index' = tag_index + 1
  /\ pc' = IF tag_index = Len(essential_tags) THEN "save" ELSE "copy"
  /\ UNCHANGED <<ds, issues, problematic_vrs, private_count, printed, summary,
                 saved, error>>

\* test_ds.save_as(test_path, write_like_original=False): the write is done
\* by the library and the file system and either stores the dataset or raises.
SaveMinimal ==
  /\ pc = "save"
  /\ \E ok \in BOOLEAN :
       IF ok
       THEN /\ saved' = Append(saved, test_ds)
            /\ pc' = "done"
            /\ UNCHANGED error
       ELSE /\ error' = "save_as"
            /\ pc' = "except"
            /\ UNCHANGED saved
  /\ UNCHANGED <<ds, issues, problematic_vrs, private_count, printed, summary,
                 test_ds, tag_index, next_ref>>

\* except Exception as e: print(...); traceback.print_exc()
HandleException ==
  /\ pc = "except"
  /\ printed' = Append(printed, [head |-> "Error analyzing DICOM file", lines |-> <<>>])
  /\ pc' = "done"
  /\ UNCHANGED <<ds, issues, problematic_vrs, private_count, summary,
                 test_ds, tag_index, next_ref, saved, error>>

Next ==
  \/ CheckRequiredTags
  \/ CheckProblematicVRs
  \/ CheckSequences
  \/ CheckPrivateTags
  \/ CheckCharacterSet
  \/ Report
  \/ PrintSummary
  \/ CreateMinimal
  \/ SetMediaStorageSOPClassUID
  \/ SetMediaStorageSOPInstanceUID
  \/ CopyEssentialTag
  \/ SaveMinimal
  \/ HandleException

Spec == Init /\ [][Next]_vars

-----------------------------------------------------------------------------
\* Properties.  Each is stated on the program state, with the tag lists and
\* sets written out, independently of the operators the steps use.

Count(s, P(_)) == Len(SelectSeq(s, P))

Elements == ds.elements

Present(tag) == \E k \in 1..Len(Elements) : Elements[k].tag = tag

ElementAt(tag) == Elements[CHOOSE k \in 1..Len(Elements) : Elements[k].tag = tag]

After(labels) == pc \notin labels

RequiredOrder == << <<8, 24>>, <<16, 16>>, <<16, 32>>, <<32, 13>>, <<32, 14>> >>

OrderIndex(tag) == CHOOSE k \in 1..Len(RequiredOrder) : RequiredOrder[k] = tag

RequiredEntries ==
  SelectSeq(issues, LAMBDA x : x.kind \in {"Missing required tag", "Empty required tag"})

\* C1: once the required-tag check has run, each of the five required tags has
\* exactly one entry in issues when it is absent (a "missing" entry) or present
\* with is_empty (an "empty" entry) and none when it is present and non-empty;
\* the entries follow the fixed tag order and no tag is reported twice.
C1_RequiredTagRule ==
  After({"required_tags"}) =>
    /\ \A k \in 1..Len(RequiredOrder) :
         LET t == RequiredOrder[k]
             missing == Count(RequiredEntries,
                              LAMBDA x : x.tag = t /\ x.kind = "Missing required tag")
             empty == Count(RequiredEntries,
                            LAMBDA x : x.tag = t /\ x.kind = "Empty required tag")
         IN  /\ missing = (IF ~Present(t) THEN 1 ELSE 0)
             /\ empty = (IF Present(t) /\ ElementAt(t).is_empty THEN 1 ELSE 0)
    /\ \A i \in 1..Len(RequiredEntries) :
         \E k \in 1..Len(RequiredOrder) : RequiredEntries[i].tag = RequiredOrder[k]
    /\ \A i, j \in 1..Len(RequiredEntries) :
         i < j => OrderIndex(RequiredEntries[i].tag) < OrderIndex(RequiredEntries[j].tag)

\* a missing, an empty and a filled required tag in one validated dataset
C1_Witness ==
  /\ pc = "report"
  /\ ~Present(<<8, 24>>)
  /\ Present(<<16, 16>>) /\ ElementAt(<<16, 16>>).is_empty
  /\ Present(<<16, 32>>) /\ ~ElementAt(<<16, 32>>).is_empty
  /\ Len(RequiredEntries) >= 2

-----------------------------------------------------------------------------
BinaryVRs == {"OB", "OW", "OF", "OD", "OL", "OV", "UN"}

Disallowed(elem) == elem.VR \in BinaryVRs /\ elem.tag[1] # 32736

DisallowedCount == Count(Elements, Disallowed)

VREntries == SelectSeq(issues, LAMBDA x : x.kind = "has VR")

-----------------------------------------------------------------------------
SequenceEntries(tag) ==
  SelectSeq(issues, LAMBDA x : x.tag = tag /\
              x.kind \in {"has None item at index", "Cannot iterate sequence"})

NoneEntriesMatch(elem) ==
  LET E == SelectSeq(SequenceEntries(elem.tag), LAMBDA x : x.kind = "has None item at index")
  IN  /\ \A i \in 0..(Len(elem.value.val) - 1) :
           Count(E, LAMBDA x : x.n = i)
             = (IF elem.value.val[i + 1] = "None" THEN 1 ELSE 0)
      /\ \A i \in 1..Len(E) : E[i].n \in 0..(Len(elem.value.val) - 1)
      /\ \A i, j \in 1..Len(E) : i < j => E[i].n < E[j].n

CannotIterateCount(elem) ==
  Count(SequenceEntries(elem.tag), LAMBDA x : x.kind = "Cannot iterate sequence")

-----------------------------------------------------------------------------
SOPClassUIDTag == <<8, 22>>

SOPInstanceUIDTag == <<8, 24>>

LacksIdentity == ~Present(SOPClassUIDTag) \/ ~Present(SOPInstanceUIDTag)

\* C4: for a source that lacks SOPClassUID or SOPInstanceUID the extraction
\* ends in an error: no state has a saved dataset or an element copied into
\* the minimal dataset, the copy loop is never entered, and the run ends with
\* the attribute error raised while the file meta was being filled.
C4_MissingIdentityFails ==
  LacksIdentity =>
    /\ saved = <<>>
    /\ test_ds.elements = <<>>
    /\ tag_index = 1
    /\ pc \notin {"copy", "save"}
    /\ pc = "done" =>
         error = (IF ~Present(SOPClassUIDTag) THEN "AttributeError: SOPClassUID"
                  ELSE "AttributeError: SOPInstanceUID")

\* SOPClassUID present, SOPInstanceUID absent, other whitelist elements present
C4_Witness ==
  /\ pc = "done"
  /\ Present(SOPClassUIDTag) /\ ~Present(SOPInstanceUIDTag)
  /\ Present(<<16, 16>>) /\ Present(<<8, 96>>)
  /\ error = "AttributeError: SOPInstanceUID"
  /\ test_ds.exists

-----------------------------------------------------------------------------
WhitelistTags ==
  { <<16, 16>>, <<16, 32>>, <<32, 13>>, <<32, 14>>, <<8, 24>>, <<8, 22>>,
    <<8, 96>>, <<8, 32>>, <<8, 33>> }

Lookup(elements, tag) == { elements[k] : k \in { j \in 1..Len(elements) : elements[j].tag = tag } }

CopyFinished == test_ds.exists /\ tag_index > 9

\* C5: when the copy loop has finished, every whitelist tag present in the
\* source is present once in the minimal dataset with a value equal to the
\* source's, every whitelist tag absent from the source is absent from it, and
\* a lookup of any other tag finds nothing, whatever else the source holds.
C5_ExtractionRoundTrip ==
  CopyFinished =>
    /\ \A t \in WhitelistTags :
         IF Present(t)
         THEN /\ Cardinality(Lookup(test_ds.elements, t)) = 1
              /\ \A e \in Lookup(test_ds.elements, t) :
                   e.value.val = ElementAt(t).value.val
         ELSE Lookup(test_ds.elements, t) = {}
    /\ \A k \in 1..Len(test_ds.elements) : test_ds.elements[k].tag \in WhitelistTags
    /\ Len(test_ds.elements) = Cardinality({t \in WhitelistTags : Present(t)})

\* all nine whitelist elements, beside a sequence and PatientBirthDate
C5_Witness ==
  /\ pc = "save"
  /\ \A t \in WhitelistTags : Present(t)
  /\ Present(<<16, 48>>) /\ Present(<<8, 4373>>)
  /\ Len(test_ds.elements) = 9

-----------------------------------------------------------------------------
Containers(elements) ==
  { elements[k].value.ref : k \in 1..Len(elements) } \ {0}

SourceContainers == Containers(ds.elements) \cup Containers(ds.file_meta)

ResultContainers == Containers(test_ds.elements) \cup Containers(test_ds.file_meta)

\* C6: the minimal dataset owns its values: no container object (a
\* multi-valued or sequence value) of the source is a value of the minimal
\* dataset, and no step of the extraction changes the source dataset.
C6_ExtractionIndependent ==
  /\ [](SourceContainers \cap ResultContainers = {})
  /\ [][ds' = ds]_vars

\* two multi-valued whitelist elements were copied
C6_Witness ==
  /\ pc = "save"
  /\ Present(<<16, 32>>) /\ ElementAt(<<16, 32>>).value.shape = "multi"
  /\ Present(<<8, 96>>) /\ ElementAt(<<8, 96>>).value.shape = "multi"
  /\ Cardinality(ResultContainers) = 2

-----------------------------------------------------------------------------
OddGroupCount == Cardinality({ k \in 1..Len(Elements) : Elements[k].tag[1] % 2 = 1 })

PrivateEntries == SelectSeq(issues, LAMBDA x : x.kind = "High number of private tags")

\* C7: once the private-tag check has run, issues holds exactly one aggregate
\* entry, carrying the count N of odd-group elements, when N > 50, and no
\* private-tag entry when N <= 50.
C7_PrivateTagRule ==
  After({"required_tags", "problematic_vrs", "sequences", "private_tags"}) =>
    /\ Len(PrivateEntries) = (IF OddGroupCount > 50 THEN 1 ELSE 0)
    /\ \A i \in 1..Len(PrivateEntries) : PrivateEntries[i].n = OddGroupCount
    /\ private_count = OddGroupCount

\* 51 private elements give one entry carrying 51
C7_Witness ==
  /\ pc = "report"
  /\ OddGroupCount = 51
  /\ Len(PrivateEntries) = 1 /\ PrivateEntries[1].n = 51

-----------------------------------------------------------------------------
CharSetEntries == SelectSeq(issues, LAMBDA x : x.kind = "Non-standard character set")

StandardCharSets == { <<>>, <<"ISO_IR 6">>, <<"ISO_IR 100">>, <<"ISO_IR 192">> }

\* C8: once the character-set check has run, issues holds no character-set
\* entry when (0008,0005) is absent or its value is '', ISO_IR 6, ISO_IR 100
\* or ISO_IR 192, and exactly one entry carrying the value otherwise.
C8_CharacterSetRule ==
  After({"required_tags", "problematic_vrs", "sequences", "private_tags", "character_set"}) =>
    IF Present(<<8, 5>>) /\ ElementAt(<<8, 5>>).value.val \notin StandardCharSets
    THEN /\ Len(CharSetEntries) = 1
         /\ CharSetEntries[1].val = ElementAt(<<8, 5>>).value.val
    ELSE CharSetEntries = <<>>

\* GB18030 gives one entry carrying that value
C8_Witness ==
  /\ pc = "report"
  /\ Present(<<8, 5>>) /\ ElementAt(<<8, 5>>).value.val = <<"GB18030">>
  /\ CharSetEntries # <<>> /\ CharSetEntries[1].val = <<"GB18030">>

-----------------------------------------------------------------------------
RuleOf(kind) ==
  IF kind \in {"Missing required tag", "Empty required tag"} THEN 1
  ELSE IF kind \in {"Found binary/unknown VRs", "has VR", "... and more"} THEN 2
  ELSE IF kind \in {"has None item at index", "Cannot iterate sequence"} THEN 3
  ELSE IF kind = "High number of private tags" THEN 4
  ELSE 5

EntriesOfRule(r) == SelectSeq(issues, LAMBDA x : RuleOf(x.kind) = r)

\* C9: when all five checks have run, the entries of issues appear in rule
\* order (required tags, binary VRs, sequences, private tags, character set)
\* and the entries of each rule are those the rule yields on the dataset
\* alone, whatever the other rules appended; issues is thus a function of
\* the dataset.
C9_RuleOrderAndIndependence ==
  After({"required_tags", "problematic_vrs", "sequences", "private_tags", "character_set"}) =>
    /\ \A i, j \in 1..Len(issues) :
         i < j => RuleOf(issues[i].kind) <= RuleOf(issues[j].kind)
    /\ EntriesOfRule(1) = RequiredTagIssues(ds.elements)
    /\ EntriesOfRule(2) = ProblematicVRIssues(ProblematicVRs(ds.elements))
    /\ EntriesOfRule(3) = SequenceIssues(ds.elements)
    /\ EntriesOfRule(4) = PrivateIssues(PrivateCount(ds.elements))
    /\ EntriesOfRule(5) = CharSetIssues(ds.elements)

\* every one of the five rules has an entry in issues
C9_Witness ==
  /\ pc = "report"
  /\ \A r \in 1..5 : EntriesOfRule(r) # <<>>

-----------------------------------------------------------------------------
ExtractionStarted == test_ds.exists \/ pc \in {"media_class", "media_instance", "copy", "save"}

Reported ==
  /\ Len(printed) >= 1
  /\ printed[1].lines = issues
  /\ Len(summary) = 1

\* C10: the report and the summary are printed before the extraction starts;
\* the extraction is attempted after them whatever issues holds; for a source
\* holding SOPClassUID and SOPInstanceUID the run never ends without the
\* minimal dataset built from every whitelist element of the source; and the
\* extraction steps, failing or not, leave issues, the printed report and the
\* summary as they were.
C10_FindingsNeverGateExtraction ==
  /\ [](ExtractionStarted => Reported)
  /\ [](pc = "done" => test_ds.exists)
  /\ []((pc = "done" /\ ~LacksIdentity) =>
          /\ tag_index = Len(essential_tags) + 1
          /\ error \in {"", "save_as"}
          /\ Len(test_ds.elements) = Cardinality({t \in WhitelistTags : Present(t)}))
  /\ [][ExtractionStarted =>
          /\ issues' = issues
          /\ summary' = summary
          /\ Len(printed') >= 1 /\ printed'[1] = printed[1]]_vars

\* a saved minimal dataset from a source with an empty required tag, more than
\* five binary VRs, 51 private tags and a non-standard character set
C10_Witness ==
  /\ pc = "done"
  /\ saved # <<>>
  /\ Len(RequiredEntries) >= 1
  /\ Len(VREntries) = 5
  /\ Len(PrivateEntries) = 1
  /\ Len(CharSetEntries) = 1

====
